---- MODULE Spec2Model ----
(***************************************************************************)
(* feast-hive: the Hive offline store of Feast.                            *)
(*                                                                         *)
(* Two modules of the package implement the store:                         *)
(*   feast_hive/offline_store.py  (impyla; the job is a deferred generator *)
(*                                 with a DROP TABLE teardown)             *)
(*   feast_hive/hive.py           (pyhive; get_historical_features stages  *)
(*                                 the entity table eagerly, no teardown)  *)
(* The variable impl says which of the two the application imported.       *)
(*                                                                         *)
(* Spec     : the retrieval-job pipeline, one backend statement per step.  *)
(* SpecJoin : the point-in-time join template, evaluated relationally.     *)
(***************************************************************************)
EXTENDS Integers, Sequences, FiniteSets, TLC

\* ------------------------------------------------------------------ bounds
MaxRows == 3        \* rows of the entity DataFrame
MaxChunkSize == 2   \* largest positive _ENTITY_UPLOADING_CHUNK_SIZE tried
MaxCalls == 3       \* calls of the store's and the jobs' methods in one behaviour
MaxFailures == 1    \* statements the backend fails in one behaviour
MaxEntityRows == 2  \* rows of the staged entity table the join reads
MaxBackingRows == 3 \* rows of the feature view's backing table
MaxTime == 3        \* timestamps are the seconds 1..MaxTime
MaxSourceRows == 3  \* rows of the data source pull_latest_from_table_or_query reads

VARIABLES
    impl,                        \* "offline_store" | "hive"
    ENTITY_UPLOADING_CHUNK_SIZE, \* the module global _ENTITY_UPLOADING_CHUNK_SIZE
    entity_df,                   \* the caller's entity input
    keysOk,                      \* whether the entity schema passes offline_utils' validation
    jobs,                        \* the HiveRetrievalJob objects built so far
    runs,                        \* one record per call of an entry point or accessor
    pc,                          \* position of the call in progress ("idle": none)
    batch,                       \* index of the next batch of to_batches() (0: none)
    nameCounter,                 \* names handed out by get_temp_entity_table_name
    tables,                      \* the backend: staging table name -> its rows
    log,                         \* every statement sent to the backend, in order
    pull_args,                   \* the arguments of pull_latest_from_table_or_query
    source_rows,                 \* the rows of data_source.table
    latest_rows,                 \* what the last fetch of a pull_latest job returned
    feature_view,                \* the FeatureViewQueryContext the template is rendered for
    entity_rows,                 \* the rows of left_table_query_string (the staged entities)
    backing,                     \* the rows of featureview.table_subquery
    joined,                      \* which module's template produced output ("no": none yet)
    output,                      \* the rows the rendered statement returned
    featureviews,                \* how many feature views the query context holds
    statement                    \* the compiled statement's clauses (<<>>: not compiled)

pipeVars == <<impl, ENTITY_UPLOADING_CHUNK_SIZE, entity_df, keysOk, jobs, runs,
              pc, batch, nameCounter, tables, log, pull_args, source_rows, latest_rows>>

Impls == {"offline_store", "hive"}

\* The entity input: a DataFrame (its rows are 1..n in input order; typesOk
\* says whether pa_to_hive_value_type maps every column), a query string, or
\* a value of any other type.
EntityInputs ==
    [kind : {"df"}, rows : {[i \in 1..n |-> i] : n \in 0..MaxRows}, typesOk : {TRUE}]
    \cup [kind : {"df"}, rows : {<<1>>}, typesOk : {FALSE}]
    \cup [kind : {"query"}, rows : {<<1>>}, typesOk : {TRUE}]
    \cup [kind : {"other"}, rows : {<<>>}, typesOk : {TRUE}]

ChunkSizes == (-1)..MaxChunkSize

Min(a, b) == IF a <= b THEN a ELSE b

\* ------------------------------------------------- _upload_entity_df: chunks
\* chunk_size = entity_count if _ENTITY_UPLOADING_CHUNK_SIZE <= 0 else the global
chunk_size(df) ==
    IF ENTITY_UPLOADING_CHUNK_SIZE <= 0 THEN Len(df) ELSE ENTITY_UPLOADING_CHUNK_SIZE

\* (mutant) the last, partial batch is lost
NumBatchesFloor(df) ==
    IF Len(df) = 0 THEN 0 ELSE Len(df) \div chunk_size(df)

\* pa_table.to_batches(chunk_size): consecutive slices of at most chunk_size
\* rows of the single chunk Table.from_pandas built; an empty table has none.
NumBatches(df) ==
    IF Len(df) = 0 THEN 0
    ELSE (Len(df) + chunk_size(df) - 1) \div chunk_size(df)

BatchRows(df, k) ==
    SubSeq(df, (k - 1) * chunk_size(df) + 1, Min(k * chunk_size(df), Len(df)))

\* ------------------------------------------------------------ the call stack
Cur == runs[Len(runs)]

\* cursor.execute / fetch: one entry of the backend's statement log; every job
\* holds the one connection _get_connection gave its constructor
Stmt(op, rows, ok) ==
    [op |-> op, table |-> Cur.table, rows |-> rows, run |-> Len(runs),
     conn |-> Cur.job, ok |-> ok]

\* the outcomes the backend may give the next statement
Failed == {i \in DOMAIN log : ~log[i].ok}

Outcomes == IF Cardinality(Failed) < MaxFailures THEN BOOLEAN ELSE {TRUE}

\* an exception leaves the call: nothing of the call runs after it
Raise(at) ==
    /\ runs' = [runs EXCEPT ![Len(runs)].status = "error", ![Len(runs)].at = at,
                            ![Len(runs)].chunk = batch]
    /\ pc' = "idle"
    /\ batch' = 0

Return ==
    /\ runs' = [runs EXCEPT ![Len(runs)].status = "ok"]
    /\ pc' = "idle"
    /\ batch' = 0

NewRun(op, job, table) ==
    [op |-> op, job |-> job, table |-> table, status |-> "running", at |-> "", chunk |-> 0]

\* a constructor that returned without touching the backend
Built(job) ==
    [op |-> "construct", job |-> job, table |-> 0, status |-> "ok", at |-> "", chunk |-> 0]

joinVars == <<feature_view, entity_rows, backing, joined, output, featureviews, statement>>

\* what no step of the pipeline writes
inputs == <<impl, ENTITY_UPLOADING_CHUNK_SIZE, entity_df, keysOk, pull_args, source_rows,
            joinVars>>

\* ------------------------------------ pull_latest_from_table_or_query: query
\* join_key_columns (none, one or two columns), whether a
\* created_timestamp_column is given, start_date and end_date; whole seconds,
\* which str(datetime) and TIMESTAMP('...') carry unchanged
PullArgs ==
    {a \in [join_keys : 0..2, created : BOOLEAN, start_date : 1..MaxTime,
            end_date : 1..MaxTime] : a.created => a.join_keys <= 1}

\* the rows data_source.table may hold: join key columns, event and created
\* timestamp; a row's index in source_rows stands for its feature columns
SourceRowsUniverse(a) ==
    [k1 : IF a.join_keys >= 1 THEN {1, 11} ELSE {1},
     k2 : IF a.join_keys = 2 THEN {1, 11} ELSE {1},
     ev : 1..MaxTime,
     cr : IF a.created THEN {1, 2} ELSE {1}]

SourceRank(r) == ((r.k1 * 100 + r.k2) * 10 + r.ev) * 10 + r.cr

\* (mutant) the end of the range is excluded
betweenExclusive(a, row) == a.start_date <= row.ev /\ row.ev < a.end_date

\* WHERE event_timestamp_column BETWEEN TIMESTAMP(start_date) AND TIMESTAMP(end_date)
between(a, row) == a.start_date <= row.ev /\ row.ev <= a.end_date

\* PARTITION BY join_key_columns; no PARTITION BY clause for an empty list
same_partition(a, x, y) ==
    /\ a.join_keys >= 1 => x.k1 = y.k1
    /\ a.join_keys = 2 => x.k2 = y.k2

\* ORDER BY event_timestamp DESC[, created_timestamp DESC]: x sorts before y
sorts_before(a, x, y) ==
    \/ x.ev > y.ev
    \/ a.created /\ x.ev = y.ev /\ x.cr > y.cr

\* the results the statement may give: of each partition of the rows in the
\* range the row ROW_NUMBER() numbers 1, any of those no row sorts before
pull_latest_query(a) ==
    LET t1 == {i \in DOMAIN source_rows : between(a, source_rows[i])}
        first(i) == {j \in t1 :
                       /\ same_partition(a, source_rows[i], source_rows[j])
                       /\ \A k \in t1 :
                             same_partition(a, source_rows[i], source_rows[k])
                                => ~sorts_before(a, source_rows[k], source_rows[j])}
    IN {t2 \in SUBSET t1 :
          /\ \A i \in t1 : Cardinality(t2 \cap first(i)) = 1
          /\ \A j \in t2 : j \in first(j)}

\* ------------------------------------------------------------- entry points
\* pull_latest_from_table_or_query: builds the ranking query text and the job
PullLatest ==
    /\ pc = "idle"
    /\ Len(runs) < MaxCalls
    /\ jobs' = Append(jobs, [kind |-> "latest", table |-> 0])
    /\ runs' = Append(runs, Built(Len(jobs) + 1))
    /\ UNCHANGED <<inputs, latest_rows, pc, batch, nameCounter, tables, log>>

\* offline_store.py get_historical_features: wraps everything in query_generator
GetHistoricalFeatures ==
    /\ impl = "offline_store"
    /\ pc = "idle"
    /\ Len(runs) < MaxCalls
    /\ jobs' = Append(jobs, [kind |-> "historical", table |-> 0])
    /\ runs' = Append(runs, Built(Len(jobs) + 1))
    /\ UNCHANGED <<inputs, latest_rows, pc, batch, nameCounter, tables, log>>

\* hive.py get_historical_features: names the table and stages it right away
HiveGetHistoricalFeatures ==
    /\ impl = "hive"
    /\ pc = "idle"
    /\ Len(runs) < MaxCalls
    /\ nameCounter' = nameCounter + 1
    /\ runs' = Append(runs, NewRun("construct", Len(jobs) + 1, nameCounter + 1))
    /\ pc' = "upload"
    /\ UNCHANGED <<inputs, latest_rows, jobs, batch, tables, log>>

\* (mutant) a job that materialized once answers from a cached result
MaterializeCached(j, accessor) ==
    /\ pc = "idle"
    /\ Len(runs) < MaxCalls
    /\ IF \E r \in DOMAIN runs :
             runs[r].job = j /\ runs[r].op # "construct" /\ runs[r].status = "ok"
       THEN /\ runs' = Append(runs, [NewRun(accessor, j, 0) EXCEPT !.status = "ok"])
            /\ UNCHANGED <<nameCounter, pc>>
       ELSE IF impl = "offline_store" /\ jobs[j].kind = "historical"
            THEN /\ nameCounter' = nameCounter + 1
                 /\ runs' = Append(runs, NewRun(accessor, j, nameCounter + 1))
                 /\ pc' = "upload"
            ELSE /\ nameCounter' = nameCounter
                 /\ runs' = Append(runs, NewRun(accessor, j, jobs[j].table))
                 /\ pc' = "execute"
    /\ UNCHANGED <<inputs, latest_rows, jobs, batch, tables, log>>

\* to_arrow / to_df: enter the job's query generator
Materialize(j, accessor) ==
    /\ pc = "idle"
    /\ Len(runs) < MaxCalls
    /\ IF impl = "offline_store" /\ jobs[j].kind = "historical"
       THEN /\ nameCounter' = nameCounter + 1
            /\ runs' = Append(runs, NewRun(accessor, j, nameCounter + 1))
            /\ pc' = "upload"
       ELSE /\ nameCounter' = nameCounter
            /\ runs' = Append(runs, NewRun(accessor, j, jobs[j].table))
            /\ pc' = "execute"
    /\ UNCHANGED <<inputs, latest_rows, jobs, batch, tables, log>>

ToArrow == \E j \in DOMAIN jobs : Materialize(j, "to_arrow")

ToDf == \E j \in DOMAIN jobs : Materialize(j, "to_df")

\* ------------------------------------------------------------------ staging
\* (mutant) an input of any other type is handed to the backend as a query
UploadAnyEntitySource ==
    /\ pc = "upload"
    /\ CASE entity_df.kind = "df" /\ entity_df.typesOk ->
                /\ pc' = "create"
                /\ UNCHANGED <<runs, batch>>
         [] entity_df.kind = "df" /\ ~entity_df.typesOk -> Raise("types")
         [] OTHER ->
                /\ pc' = "ctas"
                /\ UNCHANGED <<runs, batch>>
    /\ UNCHANGED <<inputs, latest_rows, jobs, nameCounter, tables, log>>

\* (mutant) a column of an unsupported type is left out and the upload goes on
UploadDropsUnsupportedColumn ==
    /\ pc = "upload"
    /\ CASE entity_df.kind = "df" ->
                /\ pc' = "create"
                /\ UNCHANGED <<runs, batch>>
         [] entity_df.kind = "query" ->
                /\ pc' = "ctas"
                /\ UNCHANGED <<runs, batch>>
         [] OTHER -> Raise("entity_type")
    /\ UNCHANGED <<inputs, latest_rows, jobs, nameCounter, tables, log>>

\* (mutant) the column types are checked after CREATE TABLE was executed
UploadChecksTypesAfterCreate ==
    /\ pc = "upload"
    /\ CASE entity_df.kind = "df" /\ entity_df.typesOk ->
                /\ pc' = "create"
                /\ UNCHANGED <<runs, batch, tables, log>>
         [] entity_df.kind = "df" /\ ~entity_df.typesOk ->
                /\ log' = Append(log, Stmt("CREATE", <<>>, TRUE))
                /\ tables' = [t \in DOMAIN tables \cup {Cur.table} |->
                                 IF t = Cur.table THEN <<>> ELSE tables[t]]
                /\ Raise("types")
         [] entity_df.kind = "query" ->
                /\ pc' = "ctas"
                /\ UNCHANGED <<runs, batch, tables, log>>
         [] OTHER -> Raise("entity_type") /\ UNCHANGED <<tables, log>>
    /\ UNCHANGED <<inputs, latest_rows, jobs, nameCounter>>

\* _upload_entity_df_and_get_entity_schema dispatches on the input's type;
\* for a DataFrame _upload_entity_df maps every column type first.
UploadEntityDfAndGetEntitySchema ==
    /\ pc = "upload"
    /\ CASE entity_df.kind = "df" /\ entity_df.typesOk ->
                /\ pc' = "create"
                /\ UNCHANGED <<runs, batch>>
         [] entity_df.kind = "df" /\ ~entity_df.typesOk -> Raise("types")
         [] entity_df.kind = "query" ->
                /\ pc' = "ctas"
                /\ UNCHANGED <<runs, batch>>
         [] OTHER -> Raise("entity_type")
    /\ UNCHANGED <<inputs, latest_rows, jobs, nameCounter, tables, log>>

\* cursor.execute(create_entity_table_sql)
CreateTable ==
    /\ pc = "create"
    /\ \E ok \in Outcomes :
        /\ log' = Append(log, Stmt("CREATE", <<>>, ok))
        /\ IF ok
           THEN /\ tables' = [t \in DOMAIN tables \cup {Cur.table} |->
                                 IF t = Cur.table THEN <<>> ELSE tables[t]]
                /\ IF NumBatches(entity_df.rows) = 0
                   THEN pc' = "validate" /\ batch' = 0
                   ELSE pc' = "insert" /\ batch' = 1
                /\ UNCHANGED runs
           ELSE /\ Raise("create")
                /\ UNCHANGED tables
    /\ UNCHANGED <<inputs, latest_rows, jobs, nameCounter>>

\* (mutant) a failed INSERT is sent again
InsertChunkRetries ==
    /\ pc = "insert"
    /\ \E ok \in Outcomes :
        /\ log' = Append(log, Stmt("INSERT", BatchRows(entity_df.rows, batch), ok))
        /\ IF ok
           THEN /\ tables' = [tables EXCEPT ![Cur.table] =
                                 @ \o BatchRows(entity_df.rows, batch)]
                /\ IF batch = NumBatches(entity_df.rows)
                   THEN pc' = "validate" /\ batch' = 0
                   ELSE pc' = "insert" /\ batch' = batch + 1
           ELSE UNCHANGED <<tables, pc, batch>>
        /\ UNCHANGED runs
    /\ UNCHANGED <<inputs, latest_rows, jobs, nameCounter>>

\* one turn of `for batch in pa_table.to_batches(chunk_size)`
InsertChunk ==
    /\ pc = "insert"
    /\ \E ok \in Outcomes :
        /\ log' = Append(log, Stmt("INSERT", BatchRows(entity_df.rows, batch), ok))
        /\ IF ok
           THEN /\ tables' = [tables EXCEPT ![Cur.table] =
                                 @ \o BatchRows(entity_df.rows, batch)]
                /\ IF batch = NumBatches(entity_df.rows)
                   THEN pc' = "validate" /\ batch' = 0
                   ELSE pc' = "insert" /\ batch' = batch + 1
                /\ UNCHANGED runs
           ELSE /\ Raise("insert")
                /\ UNCHANGED tables
    /\ UNCHANGED <<inputs, latest_rows, jobs, nameCounter>>

\* entity_df is a query string: CREATE TEMPORARY TABLE ... AS (entity_df)
CreateTableAs ==
    /\ pc = "ctas"
    /\ \E ok \in Outcomes :
        /\ log' = Append(log, Stmt("CTAS", entity_df.rows, ok))
        /\ IF ok
           THEN /\ tables' = [t \in DOMAIN tables \cup {Cur.table} |->
                                 IF t = Cur.table THEN entity_df.rows ELSE tables[t]]
                /\ pc' = "probe"
                /\ UNCHANGED <<runs, batch>>
           ELSE /\ Raise("ctas")
                /\ UNCHANGED tables
    /\ UNCHANGED <<inputs, latest_rows, jobs, nameCounter>>

\* HiveRetrievalJob(conn, "SELECT * FROM t LIMIT 1").to_df(): in hive.py the
\* constructor takes (query, conn), so .cursor() is called on the query text
\* and raises before anything is sent.
ProbeSchema ==
    /\ pc = "probe"
    /\ IF impl = "hive"
       THEN /\ Raise("probe")
            /\ UNCHANGED log
       ELSE \E ok \in Outcomes :
            /\ log' = Append(log, Stmt("PROBE", <<>>, ok))
            /\ IF ok
               THEN pc' = "validate" /\ UNCHANGED <<runs, batch>>
               ELSE Raise("probe")
    /\ UNCHANGED <<inputs, latest_rows, jobs, nameCounter, tables>>

\* (mutant) a failed validation tears the staging table down
ValidateAndCompileTeardown ==
    /\ pc = "validate"
    /\ IF ~keysOk
       THEN /\ Raise("validate")
            /\ tables' = [t \in DOMAIN tables \ {Cur.table} |-> tables[t]]
            /\ UNCHANGED jobs
       ELSE /\ UNCHANGED tables
            /\ IF impl = "hive"
               THEN /\ jobs' = Append(jobs, [kind |-> "historical", table |-> Cur.table])
                    /\ Return
               ELSE /\ pc' = "execute"
                    /\ UNCHANGED <<jobs, runs, batch>>
    /\ UNCHANGED <<inputs, latest_rows, nameCounter, log>>

\* infer_event_timestamp_from_entity_df, assert_expected_columns_in_entity_df,
\* get_feature_view_query_context, build_point_in_time_query; then `yield query`
\* (offline_store.py) or `return HiveRetrievalJob(query, conn)` (hive.py)
ValidateAndCompile ==
    /\ pc = "validate"
    /\ IF ~keysOk
       THEN Raise("validate") /\ UNCHANGED jobs
       ELSE IF impl = "hive"
            THEN /\ jobs' = Append(jobs, [kind |-> "historical", table |-> Cur.table])
                 /\ Return
            ELSE /\ pc' = "execute"
                 /\ UNCHANGED <<jobs, runs, batch>>
    /\ UNCHANGED <<inputs, latest_rows, nameCounter, tables, log>>

\* ------------------------------------------------------------ materialization
\* cursor.execute(query)
Execute ==
    /\ pc = "execute"
    /\ \E ok \in Outcomes :
        /\ log' = Append(log, Stmt("SELECT", <<>>, ok))
        /\ IF ok
           THEN pc' = "fetch" /\ UNCHANGED <<runs, batch>>
           ELSE Raise("execute")
    /\ UNCHANGED <<inputs, latest_rows, jobs, nameCounter, tables>>

\* (mutant) the generator is never resumed: no teardown
AfterFetchNoTeardown == "idle"

\* after the with-body returned, the generator resumes behind its yield
AfterFetch ==
    IF impl = "offline_store" /\ jobs[Cur.job].kind = "historical"
    THEN "drop" ELSE "idle"

\* cursor.fetchcolumnar() and the conversion to arrow (fetchall in hive.py)
Fetch ==
    /\ pc = "fetch"
    /\ \E ok \in Outcomes :
        /\ log' = Append(log, Stmt("FETCH", <<>>, ok))
        /\ IF ok
           THEN /\ IF AfterFetch = "idle"
                   THEN Return
                   ELSE pc' = AfterFetch /\ UNCHANGED <<runs, batch>>
                /\ IF jobs[Cur.job].kind = "latest"
                   THEN latest_rows' \in pull_latest_query(pull_args)
                   ELSE UNCHANGED latest_rows
           ELSE Raise("fetch") /\ UNCHANGED latest_rows
    /\ UNCHANGED <<inputs, jobs, nameCounter, tables>>

\* the generator's tail: cursor.execute(f"DROP TABLE {table_name}")
DropTable ==
    /\ pc = "drop"
    /\ \E ok \in Outcomes :
        /\ log' = Append(log, Stmt("DROP", <<>>, ok))
        /\ IF ok
           THEN /\ tables' = [t \in DOMAIN tables \ {Cur.table} |-> tables[t]]
                /\ Return
           ELSE /\ Raise("drop")
                /\ UNCHANGED tables
    /\ UNCHANGED <<inputs, latest_rows, jobs, nameCounter>>

\* ------------------------------------------------------ the join's relations
\* Timestamps are whole seconds. A backing row's feature values are carried
\* through the statement untouched, so a row's index in `backing` stands for
\* them: an output row names the backing row its feature columns come from
\* (0: the feature columns are NULL).
KeyValues == {1, 11}

CreatedTimes == {1, 2}

\* event timestamps of backing rows: some are later than every entity row
Times == 1..(MaxTime + 1)

EntityTimes == (MaxTime - 1)..MaxTime

TTLs == 0..(MaxTime - 2)

\* one or two entity columns; a created timestamp is tried with one
FeatureViews ==
    {fv \in [ttl : TTLs, created : BOOLEAN, entities : {1, 2}] :
        fv.created => fv.entities = 1}

RECURSIVE Digits(_)
\* CAST(n AS STRING) of a non-negative integer: its decimal digits
Digits(n) == IF n < 10 THEN <<n>> ELSE Digits(n \div 10) \o <<n % 10>>

\* CAST(ts AS STRING): 'yyyy-MM-dd HH:mm:ss', a text of fixed layout that ends
\* in the seconds; 45 is the character '-'
TimestampString(t) == <<2, 0, 2, 1, 45>> \o Digits(t)

\* CONCAT(CAST(entity AS STRING) for each entity, CAST(timestamp AS STRING))
entity_row_unique_id(fv, row) ==
    (IF fv.entities = 2 THEN Digits(row.k1) \o Digits(row.k2) ELSE Digits(row.k1))
        \o TimestampString(row.ts)

\* AND subquery.{{ entity }} = entity_dataframe.{{ entity }}, for each entity
SameEntities(fv, a, b) == a.k1 = b.k1 /\ (fv.entities = 2 => a.k2 = b.k2)

SetMax(S) == CHOOSE x \in S : \A y \in S : y <= x

SetMin(S) == CHOOSE x \in S : \A y \in S : x <= y

\* {{ featureview.name }}__entity_dataframe: GROUP BY entities, entity_timestamp, id
view_entity_dataframe(fv) ==
    { [k1 |-> entity_rows[e].k1,
       k2 |-> IF fv.entities = 2 THEN entity_rows[e].k2 ELSE 0,
       ts |-> entity_rows[e].ts,
       id |-> entity_row_unique_id(fv, entity_rows[e])] : e \in DOMAIN entity_rows }

\* (mutant) the lower bound of the batch window is taken from MAX(entity_timestamp)
subquery_from_max(fv) ==
    IF entity_rows = <<>> THEN {}
    ELSE LET stamps == {entity_rows[e].ts : e \in DOMAIN entity_rows}
         IN {b \in DOMAIN backing :
               /\ backing[b].ev <= SetMax(stamps)
               /\ fv.ttl # 0 => backing[b].ev >= SetMax(stamps) - fv.ttl}

\* __subquery: the batch window. MAX / MIN over no entity row is NULL and the
\* comparison with it keeps no row.
subquery(fv) ==
    IF entity_rows = <<>> THEN {}
    ELSE LET stamps == {entity_rows[e].ts : e \in DOMAIN entity_rows}
         IN {b \in DOMAIN backing :
               /\ backing[b].ev <= SetMax(stamps)
               /\ fv.ttl # 0 => backing[b].ev >= SetMin(stamps) - fv.ttl}

\* __base: the per-row point-in-time predicate; a row of it is <<b, g>>
base(fv) ==
    {x \in subquery(fv) \X view_entity_dataframe(fv) :
        /\ backing[x[1]].ev <= x[2].ts
        /\ fv.ttl # 0 => backing[x[1]].ev >= x[2].ts - fv.ttl
        /\ SameEntities(fv, backing[x[1]], x[2])}

\* the columns of a row <<b, g>> of __base that the later CTEs join on
base_key(fv, x) ==
    [id |-> x[2].id, ev |-> backing[x[1]].ev,
     cr |-> IF fv.created THEN backing[x[1]].cr ELSE 0]

\* __dedup: MAX(created_timestamp) GROUP BY id, event_timestamp
dedup(fv, B) ==
    {[id |-> x[2].id, ev |-> backing[x[1]].ev,
      cr |-> SetMax({backing[y[1]].cr : y \in {z \in B :
                        z[2].id = x[2].id /\ backing[z[1]].ev = backing[x[1]].ev}})]
        : x \in B}

\* the FROM of __latest: __base, INNER JOIN __dedup USING (id, ev, cr) when a
\* created timestamp is configured
latest_from(fv, B) ==
    IF fv.created
    THEN LET D == dedup(fv, B) IN {x \in B : base_key(fv, x) \in D}
    ELSE B

\* the values ANY_VALUE(created_timestamp) may return for each group of
\* __latest (offline_store.py); hive.py takes MAX(base.created_timestamp)
created_picks(tpl, fv) ==
    LET L == latest_from(fv, base(fv))
        ids == {x[2].id : x \in L}
    IN {pick \in [ids -> CreatedTimes] :
          \A id \in ids :
            LET seen == {backing[x[1]].cr : x \in {y \in L : y[2].id = id}}
            IN IF tpl = "hive" THEN pick[id] = SetMax(seen) ELSE pick[id] \in seen}

\* __latest: MAX(event_timestamp), the picked created_timestamp, GROUP BY id
latest(fv, L, pick) ==
    {[id |-> id,
      ev |-> SetMax({backing[x[1]].ev : x \in {y \in L : y[2].id = id}}),
      cr |-> IF fv.created THEN pick[id] ELSE 0] : id \in {x[2].id : x \in L}}

\* __cleaned: __base INNER JOIN __latest USING (id, event_timestamp[, created_timestamp])
cleaned(fv, pick) ==
    LET B == base(fv)
        T == latest(fv, latest_from(fv, B), pick)
    IN {x \in B : base_key(fv, x) \in T}

NoGroup == [k1 |-> 0, k2 |-> 0, ts |-> 0, id |-> <<>>]

\* SELECT * FROM entity_dataframe LEFT JOIN (... FROM __cleaned) USING (id)
point_in_time_join(fv, pick) ==
    LET C == cleaned(fv, pick)
        matches(e) == {x \in C : x[2].id = entity_row_unique_id(fv, entity_rows[e])}
    IN UNION {IF matches(e) = {}
              THEN {[e |-> e, f |-> 0, g |-> NoGroup]}
              ELSE {[e |-> e, f |-> x[1], g |-> x[2]] : x \in matches(e)}
                 : e \in DOMAIN entity_rows}

\* the backend runs the statement rendered from a module's template
ExecuteJoin(tpl) ==
    /\ joined = "no"
    /\ \E pick \in created_picks(tpl, feature_view) :
          output' = point_in_time_join(feature_view, pick)
    /\ joined' = tpl
    /\ UNCHANGED <<feature_view, entity_rows, backing, featureviews, statement, pipeVars>>

ExecuteJoinOfflineStore == ExecuteJoin("offline_store")

ExecuteJoinHive == ExecuteJoin("hive")

\* ------------------------------------------------------------ the join's inputs
EntityRowsUniverse(fv) ==
    [k1 : KeyValues, k2 : IF fv.entities = 2 THEN KeyValues ELSE {1}, ts : EntityTimes]

BackingRowsUniverse(fv) ==
    [k1 : KeyValues, k2 : IF fv.entities = 2 THEN KeyValues ELSE {1}, ev : Times,
     cr : IF fv.created THEN CreatedTimes ELSE {1}]

\* tables are bags: one sequence for each, its rows in a fixed order
EntityRank(r) == (r.k1 * 100 + r.k2) * 10 + r.ts

BackingRank(r) == ((r.k1 * 100 + r.k2) * 10 + r.ev) * 10 + r.cr

\* the bags of at most n rows of U; rank orders the rows of U
Bags(U, n, rank) ==
    UNION {{s \in [1..m -> U] : \A i \in 1..(m - 1) : rank[s[i]] <= rank[s[i + 1]]}
              : m \in 0..n}

\* --------------------------------------------- the template as a statement
FeatureViewCounts == {0, 1, 2}

RECURSIVE Repeat(_, _)
\* n copies of the sequence s, one after the other
Repeat(s, n) == IF n = 0 THEN <<>> ELSE s \o Repeat(s, n - 1)

\* the common table expressions one turn of `for featureview in featureviews`
\* renders, each but the last closed by "),": __entity_dataframe, __subquery,
\* __base, __dedup (with a created timestamp), __latest, __cleaned
view_ctes(fv) ==
    <<"CTE", ",", "CTE", ",", "CTE", ",">>
        \o (IF fv.created THEN <<"CTE", ",">> ELSE <<>>)
        \o <<"CTE", ",", "CTE">>

\* MULTIPLE_FEATURE_VIEW_POINT_IN_TIME_JOIN rendered for n feature views, as
\* its clauses: WITH entity_dataframe AS (...) "," then the views' expressions
\* with "," after each __cleaned but the last (loop.last), then SELECT * FROM
\* entity_dataframe and one LEFT JOIN per view
render(n, fv) ==
    <<"WITH", "CTE", ",">>
        \o (IF n = 0 THEN <<>>
            ELSE Repeat(view_ctes(fv) \o <<",">>, n - 1) \o view_ctes(fv))
        \o <<"SELECT">> \o Repeat(<<"JOIN">>, n)

\* what may follow what in a statement: WITH cte {, cte} SELECT {JOIN}
Follows ==
    {<<"WITH", "CTE">>, <<"CTE", ",">>, <<",", "CTE">>, <<"CTE", "SELECT">>,
     <<"SELECT", "JOIN">>, <<"JOIN", "JOIN">>}

\* the backend's parser accepts the statement
parses(stmt) ==
    /\ stmt # <<>>
    /\ stmt[1] = "WITH"
    /\ stmt[Len(stmt)] \in {"SELECT", "JOIN"}
    /\ \A i \in 1..(Len(stmt) - 1) : <<stmt[i], stmt[i + 1]>> \in Follows

\* SELECT * FROM entity_dataframe with no LEFT JOIN: every staged row, once
select_entity_dataframe ==
    {[e |-> e, f |-> 0, g |-> NoGroup] : e \in DOMAIN entity_rows}

\* offline_utils.build_point_in_time_query(query_context, ..., query_template)
BuildPointInTimeQuery ==
    /\ statement = <<>>
    /\ statement' = render(featureviews, feature_view)
    /\ UNCHANGED <<feature_view, entity_rows, backing, joined, output, featureviews, pipeVars>>

\* cursor.execute(query) and the fetch, for a statement of at most one view:
\* the backend rejects a statement it cannot parse
ExecuteStatement ==
    /\ statement # <<>>
    /\ joined = "no"
    /\ featureviews <= 1
    /\ IF ~parses(statement)
       THEN joined' = "error" /\ output' = {}
       ELSE \E tpl \in Impls :
              /\ joined' = tpl
              /\ IF featureviews = 0
                 THEN output' = select_entity_dataframe
                 ELSE \E pick \in created_picks(tpl, feature_view) :
                        output' = point_in_time_join(feature_view, pick)
    /\ UNCHANGED <<feature_view, entity_rows, backing, featureviews, statement, pipeVars>>

\* ------------------------------------------------------------ specifications
\* the data source's variables while something else is studied
LatestOff ==
    /\ pull_args = [join_keys |-> 0, created |-> FALSE, start_date |-> 1, end_date |-> 1]
    /\ source_rows = <<>>
    /\ latest_rows = {}

PipeInit ==
    /\ impl \in Impls
    /\ ENTITY_UPLOADING_CHUNK_SIZE \in ChunkSizes
    /\ entity_df \in EntityInputs
    /\ keysOk \in BOOLEAN
    /\ jobs = <<>>
    /\ runs = <<>>
    /\ pc = "idle"
    /\ batch = 0
    /\ nameCounter = 0
    /\ tables = <<>>
    /\ log = <<>>
    /\ LatestOff

\* the join's variables while the pipeline is studied
JoinOff ==
    /\ feature_view = [ttl |-> 0, created |-> FALSE, entities |-> 1]
    /\ entity_rows = <<>>
    /\ backing = <<>>
    /\ joined = "no"
    /\ output = {}
    /\ featureviews = 1
    /\ statement = <<>>

\* the pipeline's variables while the join is studied
PipeOff ==
    /\ impl = "offline_store"
    /\ ENTITY_UPLOADING_CHUNK_SIZE = 0
    /\ entity_df = [kind |-> "df", rows |-> <<>>, typesOk |-> TRUE]
    /\ keysOk = TRUE
    /\ jobs = <<>>
    /\ runs = <<>>
    /\ pc = "idle"
    /\ batch = 0
    /\ nameCounter = 0
    /\ tables = <<>>
    /\ log = <<>>
    /\ LatestOff

\* the pipeline of a pull_latest job over every data source
LatestInit ==
    /\ impl \in Impls
    /\ ENTITY_UPLOADING_CHUNK_SIZE = 0
    /\ entity_df = [kind |-> "df", rows |-> <<>>, typesOk |-> TRUE]
    /\ keysOk = TRUE
    /\ jobs = <<>>
    /\ runs = <<>>
    /\ pc = "idle"
    /\ batch = 0
    /\ nameCounter = 0
    /\ tables = <<>>
    /\ log = <<>>
    /\ pull_args \in PullArgs
    /\ source_rows \in Bags(SourceRowsUniverse(pull_args), MaxSourceRows,
                            [r \in SourceRowsUniverse(pull_args) |-> SourceRank(r)])
    /\ latest_rows = {}

JoinInit ==
    /\ feature_view \in FeatureViews
    /\ entity_rows \in Bags(EntityRowsUniverse(feature_view), MaxEntityRows,
                            [r \in EntityRowsUniverse(feature_view) |-> EntityRank(r)])
    /\ backing \in Bags(BackingRowsUniverse(feature_view), MaxBackingRows,
                        [r \in BackingRowsUniverse(feature_view) |-> BackingRank(r)])
    /\ joined = "no"
    /\ output = {}
    /\ featureviews = 1
    /\ statement = <<>>

\* the query contexts build_point_in_time_query is given: none, one or two
\* feature views (two are the same view twice), and the staged entity rows
CompileInit ==
    /\ feature_view \in FeatureViews
    /\ entity_rows \in Bags(EntityRowsUniverse(feature_view), MaxEntityRows,
                            [r \in EntityRowsUniverse(feature_view) |-> EntityRank(r)])
    /\ backing \in Bags(BackingRowsUniverse(feature_view), 1,
                        [r \in BackingRowsUniverse(feature_view) |-> BackingRank(r)])
    /\ joined = "no"
    /\ output = {}
    /\ featureviews \in FeatureViewCounts
    /\ statement = <<>>

Init == PipeInit /\ JoinOff

Next ==
    \/ PullLatest
    \/ GetHistoricalFeatures
    \/ HiveGetHistoricalFeatures
    \/ ToArrow
    \/ ToDf
    \/ UploadEntityDfAndGetEntitySchema
    \/ CreateTable
    \/ InsertChunk
    \/ CreateTableAs
    \/ ProbeSchema
    \/ ValidateAndCompile
    \/ Execute
    \/ Fetch
    \/ DropTable

vars == <<pipeVars, joinVars>>

Spec == Init /\ [][Next]_vars

InitJoin == PipeOff /\ JoinInit

NextJoin ==
    \/ ExecuteJoinOfflineStore
    \/ ExecuteJoinHive

SpecJoin == InitJoin /\ [][NextJoin]_vars

InitLatest == LatestInit /\ JoinOff

NextLatest ==
    \/ PullLatest
    \/ ToArrow
    \/ ToDf
    \/ Execute
    \/ Fetch

SpecLatest == InitLatest /\ [][NextLatest]_vars

InitCompile == PipeOff /\ CompileInit

NextCompile ==
    \/ BuildPointInTimeQuery
    \/ ExecuteStatement

SpecCompile == InitCompile /\ [][NextCompile]_vars

\* ===================================================================== claims
\* the statements one call sent, in order
RunLog(r) == SelectSeq(log, LAMBDA s : s.run = r)

Sent(r) == [i \in DOMAIN RunLog(r) |-> [op |-> RunLog(r)[i].op, rows |-> RunLog(r)[i].rows]]

OpsOf(r, op) == SelectSeq(RunLog(r), LAMBDA s : s.op = op)

IsPrefix(a, b) == Len(a) <= Len(b) /\ a = SubSeq(b, 1, Len(a))

RECURSIVE Flatten(_)
Flatten(ss) == IF ss = <<>> THEN <<>> ELSE Head(ss) \o Flatten(Tail(ss))

\* ceil(n / c) for c > 0
Ceil(n, c) == CHOOSE q \in 0..n : q * c >= n /\ (q - 1) * c < n

\* the chunks of `rows` for a configured chunk size C, as the specification words them
ExpectedChunks(rows, C) ==
    IF Len(rows) = 0 THEN <<>>
    ELSE IF C <= 0 THEN <<rows>>
    ELSE [k \in 1..Ceil(Len(rows), C) |->
            [i \in 1..(IF k * C <= Len(rows) THEN C ELSE Len(rows) - (k - 1) * C) |->
                rows[(k - 1) * C + i]]]

Finished(r) == r < Len(runs) \/ pc = "idle"

IsMaterialization(r) == runs[r].op \in {"to_df", "to_arrow"}

\* a materialization of an offline_store.py historical job
HistoricalRun(r) ==
    /\ impl = "offline_store"
    /\ IsMaterialization(r)
    /\ jobs[runs[r].job].kind = "historical"

\* C1: if setup completed and executing the statement or fetching its result
\* raises, DROP TABLE for the staging table is issued before the error reaches
\* the caller.
C1_TeardownAfterFailedMaterialization ==
    \A r \in DOMAIN runs :
        (HistoricalRun(r) /\ Finished(r) /\ runs[r].status = "error"
            /\ runs[r].at \in {"execute", "fetch"})
        => \E i \in DOMAIN log :
              log[i].run = r /\ log[i].op = "DROP" /\ log[i].table = runs[r].table

\* the statements a materialization of a historical job over a DataFrame sends
ExpectedStatements ==
    <<[op |-> "CREATE", rows |-> <<>>]>>
    \o [k \in DOMAIN ExpectedChunks(entity_df.rows, ENTITY_UPLOADING_CHUNK_SIZE) |->
          [op |-> "INSERT",
           rows |-> ExpectedChunks(entity_df.rows, ENTITY_UPLOADING_CHUNK_SIZE)[k]]]
    \o <<[op |-> "SELECT", rows |-> <<>>], [op |-> "FETCH", rows |-> <<>>],
         [op |-> "DROP", rows |-> <<>>]>>

\* C2: a materialization of an offline_store.py historical job over a DataFrame
\* sends, on the job's one connection and for one staging table, CREATE, the
\* INSERT chunks in order, the SELECT, the fetch, DROP: at every moment what
\* was sent is a prefix of that list (no DROP before the fetch, no SELECT
\* before the last INSERT), and a successful call sent all of it.
C2_StatementOrder ==
    \A r \in DOMAIN runs :
        (HistoricalRun(r) /\ entity_df.kind = "df")
        => /\ IsPrefix(Sent(r), ExpectedStatements)
           /\ \A i \in DOMAIN RunLog(r) :
                 RunLog(r)[i].table = runs[r].table /\ RunLog(r)[i].conn = runs[r].job
           /\ runs[r].status = "ok"
                 => Sent(r) = ExpectedStatements
                    /\ \A i \in DOMAIN RunLog(r) : RunLog(r)[i].ok

C2_Witness ==
    \E r \in DOMAIN runs :
        /\ HistoricalRun(r) /\ entity_df.kind = "df"
        /\ runs[r].status = "ok"
        /\ Len(OpsOf(r, "INSERT")) >= 2

\* C3: no statement is sent to the backend by the call that builds a job.
C3_NoStatementAtConstruction ==
    \A i \in DOMAIN log : runs[log[i].run].op # "construct"

\* the successful materializations of job j
OkRuns(j) ==
    {r \in DOMAIN runs : runs[r].job = j /\ IsMaterialization(r) /\ runs[r].status = "ok"}

\* statements `op` the backend executed for the runs in R
Executed(R, op) == {i \in DOMAIN log : log[i].run \in R /\ log[i].op = op /\ log[i].ok}

\* C4: nothing is cached. For every job of offline_store.py the k successful
\* materializations executed the compiled query k times, each its own; for a
\* historical job they created k staging tables and dropped k; and when no
\* call of the job failed the backend saw the query exactly k times in all.
C4_NoCaching ==
    impl = "offline_store" =>
    \A j \in DOMAIN jobs :
        /\ Cardinality(Executed(OkRuns(j), "SELECT")) = Cardinality(OkRuns(j))
        /\ \A r \in OkRuns(j) : Cardinality(Executed({r}, "SELECT")) = 1
        /\ jobs[j].kind = "historical"
              => /\ Cardinality(Executed(OkRuns(j), "CREATE") \cup Executed(OkRuns(j), "CTAS"))
                    = Cardinality(OkRuns(j))
                 /\ Cardinality(Executed(OkRuns(j), "DROP")) = Cardinality(OkRuns(j))
                 /\ Cardinality({runs[r].table : r \in OkRuns(j)}) = Cardinality(OkRuns(j))
        /\ (\A r \in DOMAIN runs :
                (runs[r].job = j /\ IsMaterialization(r)) => runs[r].status = "ok")
              => Cardinality({i \in DOMAIN log :
                                 log[i].conn = j /\ log[i].op = "SELECT"})
                    = Cardinality(OkRuns(j))

C4_Witness ==
    /\ impl = "offline_store"
    /\ \E j \in DOMAIN jobs :
          /\ jobs[j].kind = "historical"
          /\ \E r1, r2 \in OkRuns(j) : runs[r1].op = "to_df" /\ runs[r2].op = "to_arrow"

\* a call whose _upload_entity_df ran to its end
UploadFinished(r) ==
    /\ entity_df.kind = "df"
    /\ Len(OpsOf(r, "CREATE")) > 0
    /\ r = Len(runs) => pc \notin {"create", "insert"}
    /\ ~(runs[r].status = "error" /\ runs[r].at \in {"create", "insert"})

\* C9: an upload of N rows with chunk size C that ran to its end sent one
\* CREATE TABLE and then ceil(N/C) INSERTs (one INSERT of all rows when
\* C <= 0, none when N = 0) that hold every input row once, in input order,
\* and the staging table holds exactly the N rows.
C9_ChunkedUpload ==
    \A r \in DOMAIN runs :
        UploadFinished(r) =>
            LET N == Len(entity_df.rows)
                C == ENTITY_UPLOADING_CHUNK_SIZE
                inserts == OpsOf(r, "INSERT")
            IN /\ Len(OpsOf(r, "CREATE")) = 1
               /\ RunLog(r)[1].op = "CREATE"
               /\ Len(inserts) = (IF N = 0 THEN 0 ELSE IF C <= 0 THEN 1 ELSE Ceil(N, C))
               /\ \A k \in DOMAIN inserts :
                     /\ inserts[k].ok
                     /\ inserts[k].rows = ExpectedChunks(entity_df.rows, C)[k]
                     /\ C > 0 => Len(inserts[k].rows) <= C
               /\ Flatten([k \in DOMAIN inserts |-> inserts[k].rows]) = entity_df.rows
               /\ Len(OpsOf(r, "DROP")) = 0
                     => /\ runs[r].table \in DOMAIN tables
                        /\ tables[runs[r].table] = entity_df.rows

C9_Witness ==
    \E r \in DOMAIN runs :
        /\ UploadFinished(r)
        /\ Len(entity_df.rows) = 3
        /\ ENTITY_UPLOADING_CHUNK_SIZE = 2
        /\ Len(OpsOf(r, "INSERT")) = 2

\* C10: no retry, no rollback. Within one upload the failed statement is the
\* last one sent, no chunk is sent twice, and the call ends in the error. When
\* CREATE TABLE failed no INSERT was sent and no table exists; when the INSERT
\* of chunk k failed the table exists and holds the rows of chunks 1..k-1.
C10_NoRetryNoRollback ==
    \A r \in DOMAIN runs :
        (entity_df.kind = "df" /\ Len(OpsOf(r, "CREATE")) > 0) =>
            LET S == RunLog(r)
                inserts == OpsOf(r, "INSERT")
                t == runs[r].table
                all == ExpectedChunks(entity_df.rows, ENTITY_UPLOADING_CHUNK_SIZE)
            IN /\ \A i \in DOMAIN S : ~S[i].ok => i = Len(S)
               /\ \A i \in DOMAIN S :
                     (~S[i].ok /\ (r < Len(runs) \/ pc = "idle"))
                        => runs[r].status = "error"
               /\ Len(OpsOf(r, "CREATE")) = 1
               /\ \A a, b \in DOMAIN inserts : inserts[a].rows = inserts[b].rows => a = b
               /\ (runs[r].status = "error" /\ runs[r].at = "create")
                     => Len(inserts) = 0 /\ t \notin DOMAIN tables
               /\ (runs[r].status = "error" /\ runs[r].at = "insert")
                     => /\ ~inserts[Len(inserts)].ok
                        /\ runs[r].chunk = Len(inserts)
                        /\ t \in DOMAIN tables
                        /\ tables[t] = Flatten(SubSeq(all, 1, Len(inserts) - 1))

C10_Witness ==
    \E r \in DOMAIN runs :
        /\ runs[r].status = "error" /\ runs[r].at = "insert"
        /\ Len(OpsOf(r, "INSERT")) = 2
        /\ tables[runs[r].table] # <<>>

\* --------------------------------------------------------- claims on the join
\* the backing rows that qualify for entity row e under a TTL: every entity
\* key equal, event_timestamp <= entity timestamp, and inside the TTL window
Qualifying(e, ttl) ==
    {b \in DOMAIN backing :
        /\ backing[b].k1 = entity_rows[e].k1
        /\ feature_view.entities = 2 => backing[b].k2 = entity_rows[e].k2
        /\ backing[b].ev <= entity_rows[e].ts
        /\ ttl # 0 => backing[b].ev >= entity_rows[e].ts - ttl}

\* those of S with the greatest event_timestamp
Newest(S) == {b \in S : \A c \in S : backing[c].ev <= backing[b].ev}

\* those of S with the greatest created_timestamp
LastWritten(S) == {b \in S : \A c \in S : backing[c].cr <= backing[b].cr}

\* the backing rows (0: NULL) in the output rows of entity row e
FeaturesOf(out, e) == {o.f : o \in {x \in out : x.e = e}}

\* C5: the output has one row for each entity row, duplicates included, and
\* an entity row without a qualifying backing row has NULL feature columns.
C5_LeftJoinTotality ==
    joined # "no" =>
        /\ Cardinality(output) = Len(entity_rows)
        /\ \A e \in DOMAIN entity_rows :
              /\ Cardinality({o \in output : o.e = e}) = 1
              /\ Qualifying(e, feature_view.ttl) = {} => FeaturesOf(output, e) = {0}

\* C6: with a created timestamp, an entity row's features are those of the
\* qualifying row that has the greatest created_timestamp among the rows
\* tied at the greatest qualifying event_timestamp.
C6_LastWriterWins ==
    (joined # "no" /\ feature_view.created) =>
        \A e \in DOMAIN entity_rows :
            Qualifying(e, feature_view.ttl) # {} =>
                FeaturesOf(output, e)
                    \subseteq LastWritten(Newest(Qualifying(e, feature_view.ttl)))

\* C7: with TTL = 0 an entity row's features are those of the backing row of
\* greatest event_timestamp <= the entity timestamp among the rows with its
\* keys, however old, and NULL only when there is none.
C7_UnboundedTtl ==
    (joined # "no" /\ feature_view.ttl = 0) =>
        \A e \in DOMAIN entity_rows :
            IF Qualifying(e, 0) = {}
            THEN FeaturesOf(output, e) = {0}
            ELSE FeaturesOf(output, e) \subseteq Newest(Qualifying(e, 0))

\* backing row b lies in the TTL window of entity row e
InWindow(b, e, ttl) ==
    /\ backing[b].ev <= entity_rows[e].ts
    /\ backing[b].ev >= entity_rows[e].ts - ttl

\* C8, first half: with TTL = T > 0 no feature value comes from a backing row
\* outside [entity timestamp - T, entity timestamp] of its entity row.
C8_TtlWindow ==
    (joined # "no" /\ feature_view.ttl > 0) =>
        \A o \in output : o.f # 0 => InWindow(o.f, o.e, feature_view.ttl)

\* C8: the first half, and when the rows the statement returns for an entity
\* row under TTL = 0 lie inside its window, it returns the same under TTL = T.
C8_TtlOnlyPrunes ==
    (joined # "no" /\ feature_view.ttl > 0) =>
        /\ \A o \in output : o.f # 0 => InWindow(o.f, o.e, feature_view.ttl)
        /\ \A pick \in created_picks(joined, [feature_view EXCEPT !.ttl = 0]) :
              \A e \in DOMAIN entity_rows :
                 LET unbounded == FeaturesOf(
                        point_in_time_join([feature_view EXCEPT !.ttl = 0], pick), e)
                 IN (0 \notin unbounded
                        /\ \A b \in unbounded : InWindow(b, e, feature_view.ttl))
                    => FeaturesOf(output, e) = unbounded

\* ------------------------------------------------- claims on the staging table
\* every call so far returned without an error and none is in progress
AllRunsOk == pc = "idle" /\ \A r \in DOMAIN runs : runs[r].status = "ok"

\* C11: a staging table belongs to one run of one job. No two calls create,
\* fill, query or drop a table of the same name, and once every call has
\* returned successfully no staging table exists on the backend.
C11_StagingLifecycle ==
    /\ \A i, k \in DOMAIN log :
          (log[i].table # 0 /\ log[i].table = log[k].table) => log[i].run = log[k].run
    /\ AllRunsOk => DOMAIN tables = {}

\* ------------------------------------------------ claims on latest-value retrieval
\* a materialization of a pull_latest job
LatestRun(r) == IsMaterialization(r) /\ jobs[runs[r].job].kind = "latest"

\* a materialization of a pull_latest job fetched its result
LatestFetched ==
    \E i \in DOMAIN log :
        /\ log[i].op = "FETCH" /\ log[i].ok
        /\ LatestRun(log[i].run)

\* the rows of the data source inside [start_date, end_date]
InRange ==
    {i \in DOMAIN source_rows :
        pull_args.start_date <= source_rows[i].ev /\ source_rows[i].ev <= pull_args.end_date}

\* the values of a row's join key columns
KeyOf(i) ==
    <<IF pull_args.join_keys >= 1 THEN source_rows[i].k1 ELSE 0,
      IF pull_args.join_keys = 2 THEN source_rows[i].k2 ELSE 0>>

\* row j is not older than row i in (event timestamp, created timestamp)
NotOlder(j, i) ==
    \/ source_rows[j].ev > source_rows[i].ev
    \/ /\ source_rows[j].ev = source_rows[i].ev
       /\ pull_args.created => source_rows[j].cr >= source_rows[i].cr

\* C12: latest-value retrieval returns only rows inside the inclusive range,
\* exactly one row for each combination of join key values that has a row in
\* the range, that row being first in (event timestamp, created timestamp)
\* descending; with no join key at most one row; and its jobs send nothing but
\* the query and its fetch, so no staging table ever exists.
C12_LatestRowPerKey ==
    /\ LatestFetched =>
          /\ latest_rows \subseteq InRange
          /\ \A i \in InRange :
                Cardinality({j \in latest_rows : KeyOf(j) = KeyOf(i)}) = 1
          /\ \A j \in latest_rows : \A i \in InRange :
                KeyOf(i) = KeyOf(j) => NotOlder(j, i)
          /\ pull_args.join_keys = 0 => Cardinality(latest_rows) <= 1
    /\ \A i \in DOMAIN log :
          LatestRun(log[i].run) => log[i].op \in {"SELECT", "FETCH"}
    /\ (\A r \in DOMAIN runs : LatestRun(r) \/ runs[r] = Built(runs[r].job))
          => DOMAIN tables = {}

C12_Witness ==
    /\ LatestFetched
    /\ \E j \in latest_rows : \E i, o \in DOMAIN source_rows :
          /\ i \in InRange /\ i \notin latest_rows
          /\ KeyOf(i) = KeyOf(j)
          /\ source_rows[i].ev = source_rows[j].ev
          /\ source_rows[i].cr < source_rows[j].cr
          /\ KeyOf(o) = KeyOf(j)
          /\ source_rows[o].ev > pull_args.end_date

\* ------------------------------------------------------ claims on the errors
\* the call r ended in the error raised at `at`
RaisedAt(r, at) == runs[r].status = "error" /\ runs[r].at = at

\* C13: when the validation of the join keys or of the timestamp column
\* fails, the call ends in that error before the query is compiled: it sent
\* no SELECT of a compiled query and no DROP TABLE, and the staging table it
\* created stays on the backend.
C13_ValidationBeforeCompile ==
    \A r \in DOMAIN runs :
        RaisedAt(r, "validate") =>
            /\ Len(OpsOf(r, "SELECT")) = 0
            /\ Len(OpsOf(r, "FETCH")) = 0
            /\ Len(OpsOf(r, "DROP")) = 0
            /\ Len(OpsOf(r, "CREATE")) + Len(OpsOf(r, "CTAS")) = 1
            /\ runs[r].table \in DOMAIN tables

C13_Witness ==
    \E r \in DOMAIN runs :
        /\ RaisedAt(r, "validate")
        /\ r < Len(runs)
        /\ Len(OpsOf(r, "INSERT")) = 2
        /\ Len(tables[runs[r].table]) = 3

\* a call that stages the entity input: a materialization of a historical job
\* (offline_store.py) or get_historical_features itself (hive.py)
StagingRun(r) == runs[r].table # 0 /\ (impl = "hive" => runs[r].op = "construct")

\* C14: an entity input that is neither a DataFrame nor a query string ends
\* every staging call in InvalidEntityType before anything is sent: the call
\* has no statement in the backend's log and no staging table exists.
C14_UnsupportedEntitySource ==
    entity_df.kind = "other" =>
        /\ DOMAIN tables = {}
        /\ \A r \in DOMAIN runs :
              StagingRun(r) =>
                 /\ RunLog(r) = <<>>
                 /\ Finished(r) => RaisedAt(r, "entity_type")

C14_Witness ==
    /\ entity_df.kind = "other"
    /\ \E r1, r2 \in DOMAIN runs :
          /\ r1 < r2 /\ r2 < Len(runs)
          /\ RaisedAt(r1, "entity_type") /\ RaisedAt(r2, "entity_type")

\* the entity input is a DataFrame with a column pa_to_hive_value_type does not map
UnsupportedColumn == entity_df.kind = "df" /\ ~entity_df.typesOk

\* C15: with a column of an unsupported type every staging call ends in the
\* unsupported-type error, no INSERT is ever sent and no table ever holds a
\* row of the input (nothing is uploaded under a coerced type or without the
\* column).
C15_UnsupportedColumnType ==
    UnsupportedColumn =>
        /\ \A i \in DOMAIN log : log[i].op # "INSERT"
        /\ \A t \in DOMAIN tables : tables[t] = <<>>
        /\ \A r \in DOMAIN runs :
              (StagingRun(r) /\ Finished(r)) => RaisedAt(r, "types")

C15_Witness ==
    /\ UnsupportedColumn
    /\ impl = "offline_store"
    /\ \E r1, r2 \in DOMAIN runs :
          r1 < r2 /\ RaisedAt(r1, "types") /\ RaisedAt(r2, "types")

\* C19: _upload_entity_df maps every column type before its first statement:
\* a call that ended in the unsupported-type error sent no statement at all,
\* CREATE TABLE included, and its staging table does not exist.
C19_TypesCheckedBeforeCreate ==
    \A r \in DOMAIN runs :
        RaisedAt(r, "types") =>
            /\ RunLog(r) = <<>>
            /\ runs[r].table \notin DOMAIN tables

C19_Witness ==
    /\ impl = "hive"
    /\ \E r \in DOMAIN runs :
          /\ RaisedAt(r, "types")
          /\ r < Len(runs)
          /\ runs[r].op = "construct"

\* ------------------------------------------------- claims on the compiled query
\* C16: with zero feature views the compiled statement is valid and returns
\* the entity rows unchanged, each once, with no feature column.
C16_ZeroFeatureViews ==
    featureviews = 0 =>
        /\ statement # <<>> => parses(statement)
        /\ joined # "no" =>
              /\ joined \in Impls
              /\ Cardinality(output) = Len(entity_rows)
              /\ \A e \in DOMAIN entity_rows :
                    {o \in output : o.e = e} = {[e |-> e, f |-> 0, g |-> NoGroup]}

\* the entity columns of the feature view and the timestamp of an entity row
Observation(row) ==
    <<row.k1, IF feature_view.entities = 2 THEN row.k2 ELSE 0, row.ts>>

\* C17: entity_row_unique_id is injective on entity observations: entity rows
\* that differ in an entity key or in the timestamp have different ids, and
\* an output row's features were resolved for the observation of its own
\* entity row.
C17_UniqueIdInjective ==
    joined # "no" =>
        /\ \A a, b \in DOMAIN entity_rows :
              entity_row_unique_id(feature_view, entity_rows[a])
                    = entity_row_unique_id(feature_view, entity_rows[b])
                 => Observation(entity_rows[a]) = Observation(entity_rows[b])
        /\ \A o \in output :
              o.f # 0 => <<o.g.k1, o.g.k2, o.g.ts>> = Observation(entity_rows[o.e])

\* backing row b satisfies the point-in-time predicate of the entity row e
PointInTime(b, e) ==
    /\ backing[b].ev <= entity_rows[e].ts
    /\ feature_view.ttl > 0 => backing[b].ev >= entity_rows[e].ts - feature_view.ttl

\* the timestamps of the entity batch
Stamps == {entity_rows[e].ts : e \in DOMAIN entity_rows}

\* C18: the batch prefilter changes nothing. A backing row that satisfies the
\* point-in-time predicate of some entity row lies in the batch window
\* [min(entity_timestamp) - TTL, max(entity_timestamp)] and passes __subquery,
\* and __base, the one relation every later expression reads the backing
\* rows from, is what it is when it is computed from all backing rows.
C18_PrefilterNeutral ==
    joined # "no" =>
        /\ \A b \in DOMAIN backing : \A e \in DOMAIN entity_rows :
              PointInTime(b, e) =>
                 /\ backing[b].ev <= SetMax(Stamps)
                 /\ feature_view.ttl > 0 => backing[b].ev >= SetMin(Stamps) - feature_view.ttl
                 /\ b \in subquery(feature_view)
        /\ base(feature_view) =
              {x \in (DOMAIN backing) \X view_entity_dataframe(feature_view) :
                  /\ backing[x[1]].ev <= x[2].ts
                  /\ feature_view.ttl # 0 => backing[x[1]].ev >= x[2].ts - feature_view.ttl
                  /\ SameEntities(feature_view, backing[x[1]], x[2])}

C18_Witness ==
    /\ joined # "no"
    /\ feature_view.ttl > 0
    /\ \E b \in DOMAIN backing : b \notin subquery(feature_view)
    /\ \E o \in output : o.f # 0
    /\ \E e \in DOMAIN entity_rows : \E b \in subquery(feature_view) : ~PointInTime(b, e)

====
